---- MODULE Spec2Model ----
(***************************************************************************)
(* Model of sci_comp_extra1: the streaming-mean program (src/main.rs) and  *)
(* the exact-median aggregate of its predecessor (src/main_old.rs).        *)
(*                                                                         *)
(* Bytes are their ASCII codes.  f64 values are modelled bit-exactly for   *)
(* finite numbers: sign, 53-bit significand (a natural number held in      *)
(* little-endian limbs of LimbBits bits, since TLC's integers are 32 bits  *)
(* wide) and binary exponent, with round-to-nearest-even after every       *)
(* operation, as IEEE-754 binary64 prescribes.                             *)
(*                                                                         *)
(* Scaled down: the read buffer, the capacity of the channel, the number   *)
(* of threads, the length of the input and, for main_old.rs, the number    *)
(* of buckets.  Not modelled: errors of open and read, infinities and NaN  *)
(* (the mean of a station is divided by a count of at least 1), names      *)
(* that are not ASCII.                                                     *)
(***************************************************************************)
EXTENDS Integers, Sequences, FiniteSets, TLC

(***************************************************************************)
(* Natural numbers of arbitrary size: little-endian limbs, no leading      *)
(* (high) zero limb, zero = << >>.                                         *)
(***************************************************************************)
LimbBits == 15
LimbBase == 32768

Pow2(k) == 2 ^ k

Limb(a, i) == IF i <= Len(a) THEN a[i] ELSE 0

MaxOf(x, y) == IF x >= y THEN x ELSE y

MinOf(x, y) == IF x <= y THEN x ELSE y

RECURSIVE BNorm(_)
BNorm(a) ==
    IF a = << >> THEN << >>
    ELSE IF a[Len(a)] = 0 THEN BNorm(SubSeq(a, 1, Len(a) - 1))
    ELSE a

BFromInt(n) ==
    BNorm(<< n % LimbBase, (n \div LimbBase) % LimbBase,
             n \div (LimbBase * LimbBase) >>)

RECURSIVE BAddC(_, _, _, _)
BAddC(a, b, i, c) ==
    IF i > MaxOf(Len(a), Len(b))
    THEN (IF c = 0 THEN << >> ELSE << c >>)
    ELSE LET s == Limb(a, i) + Limb(b, i) + c
         IN  << s % LimbBase >> \o BAddC(a, b, i + 1, s \div LimbBase)

BAdd(a, b) == BAddC(a, b, 1, 0)

\* a - b for a >= b
RECURSIVE BSubC(_, _, _, _)
BSubC(a, b, i, c) ==
    IF i > Len(a) THEN << >>
    ELSE LET s == Limb(a, i) - Limb(b, i) - c
         IN  IF s < 0
             THEN << s + LimbBase >> \o BSubC(a, b, i + 1, 1)
             ELSE << s >> \o BSubC(a, b, i + 1, 0)

BSub(a, b) == BNorm(BSubC(a, b, 1, 0))

\* -1, 0, 1 as a < b, a = b, a > b (both normalised)
RECURSIVE BCmpC(_, _, _)
BCmpC(a, b, i) ==
    IF i = 0 THEN 0
    ELSE IF a[i] < b[i] THEN -1
    ELSE IF a[i] > b[i] THEN 1
    ELSE BCmpC(a, b, i - 1)

BCmp(a, b) ==
    IF Len(a) < Len(b) THEN -1
    ELSE IF Len(a) > Len(b) THEN 1
    ELSE BCmpC(a, b, Len(a))

\* a * c for a small factor 0 <= c < 2^16
RECURSIVE BMulC(_, _, _, _)
BMulC(a, c, i, carry) ==
    IF i > Len(a)
    THEN (IF carry = 0 THEN << >>
          ELSE << carry % LimbBase >> \o
               (IF carry \div LimbBase = 0 THEN << >> ELSE << carry \div LimbBase >>))
    ELSE LET s == a[i] * c + carry
         IN  << s % LimbBase >> \o BMulC(a, c, i + 1, s \div LimbBase)

BMulSmall(a, c) == BNorm(BMulC(a, c, 1, 0))

\* quotient and remainder of a by a small divisor 0 < c < 2^16
RECURSIVE BDivC(_, _, _, _)
BDivC(a, c, i, r) ==
    IF i > Len(a) THEN [q |-> << >>, r |-> r]
    ELSE LET j    == Len(a) + 1 - i
             cur  == r * LimbBase + a[j]
             rest == BDivC(a, c, i + 1, cur % c)
         IN  [q |-> Append(rest.q, cur \div c), r |-> rest.r]

BDivSmall(a, c) ==
    LET d == BDivC(a, c, 1, 0) IN [q |-> BNorm(d.q), r |-> d.r]

Zeros(n) == [i \in 1..n |-> 0]

BShl(a, k) ==
    IF a = << >> THEN << >>
    ELSE Zeros(k \div LimbBits) \o BMulSmall(a, Pow2(k % LimbBits))

BShr(a, k) ==
    IF k \div LimbBits >= Len(a) THEN << >>
    ELSE BDivSmall(SubSeq(a, (k \div LimbBits) + 1, Len(a)), Pow2(k % LimbBits)).q

BLowBits(a, k) == BSub(a, BShl(BShr(a, k), k))

\* number of bits of a limb-sized number (0 <= x < 2^16)
IntBitLen(x) ==
    IF x < 256
    THEN (IF x < 16
          THEN (IF x < 4 THEN (IF x < 2 THEN x ELSE 2) ELSE (IF x < 8 THEN 3 ELSE 4))
          ELSE (IF x < 64 THEN (IF x < 32 THEN 5 ELSE 6) ELSE (IF x < 128 THEN 7 ELSE 8)))
    ELSE (IF x < 4096
          THEN (IF x < 1024 THEN (IF x < 512 THEN 9 ELSE 10) ELSE (IF x < 2048 THEN 11 ELSE 12))
          ELSE (IF x < 16384 THEN (IF x < 8192 THEN 13 ELSE 14) ELSE (IF x < 32768 THEN 15 ELSE 16)))

BBitLen(a) == IF a = << >> THEN 0 ELSE LimbBits * (Len(a) - 1) + IntBitLen(a[Len(a)])

BIsOdd(a) == a # << >> /\ a[1] % 2 = 1

(***************************************************************************)
(* f64: a finite IEEE-754 binary64 number (-1)^neg * m * 2^e, with m = 0   *)
(* (and e = 0) for zero and 2^52 <= m < 2^53 otherwise.                    *)
(***************************************************************************)
MantBits == 53

F64Zero(neg) == [neg |-> neg, m |-> << >>, e |-> 0]

\* Whether the exact value hi * 2^q + low rounds up to (hi + 1) * 2^q
\* under round-to-nearest, ties-to-even (q >= 1).
RoundsUp(M, q, hi) ==
    IF q < LimbBits
    THEN LET low == M[1] % Pow2(q)
         IN  low > Pow2(q - 1) \/ (low = Pow2(q - 1) /\ BIsOdd(hi))
    ELSE LET c == BCmp(BLowBits(M, q), BShl(<< 1 >>, q - 1))
         IN  c = 1 \/ (c = 0 /\ BIsOdd(hi))

\* Round-to-nearest, ties-to-even, of the exact value (-1)^neg * M * 2^e.
F64Round(neg, M, e) ==
    LET n == BBitLen(M)
    IN  IF n = 0 THEN F64Zero(neg)
        ELSE IF n = MantBits THEN [neg |-> neg, m |-> M, e |-> e]
        ELSE IF n < MantBits
        THEN [neg |-> neg, m |-> BShl(M, MantBits - n), e |-> e - (MantBits - n)]
        ELSE LET q    == n - MantBits
                 hi   == BShr(M, q)
                 hi2  == IF RoundsUp(M, q, hi) THEN BAdd(hi, << 1 >>) ELSE hi
             IN  IF BBitLen(hi2) > MantBits
                 THEN [neg |-> neg, m |-> BShr(hi2, 1), e |-> e + q + 1]
                 ELSE [neg |-> neg, m |-> hi2, e |-> e + q]

\* The correctly rounded quotient (-1)^neg * (m * 2^e) / d of a normalised
\* significand m by 0 < d < 2^16: the quotient is taken with at least two
\* bits below the 53 kept, and a sticky bit stands for the remainder.
F64RoundQuot(neg, m, e, d) ==
    LET s  == IntBitLen(d) + 2
        qr == BDivSmall(BShl(m, s), d)
        Q2 == BAdd(BMulSmall(qr.q, 2), IF qr.r = 0 THEN << >> ELSE << 1 >>)
    IN  F64Round(neg, Q2, e - s - 1)

F64FromInt(n) == F64Round(n < 0, BFromInt(IF n < 0 THEN -n ELSE n), 0)

\* a / d for an integer-valued f64 divisor 0 < d < 2^16 (10.0, count as f64)
F64DivSmall(a, d) ==
    IF a.m = << >> THEN a ELSE F64RoundQuot(a.neg, a.m, a.e, d)

\* fast_float::parse of a decimal with integer digits N (as a number) and
\* k fractional digits: the f64 nearest to N / 10^k (N < 2^31, k <= 4; N is
\* an f64 exactly, and the division rounds correctly).
F64FromDec(neg, N, k) ==
    LET n == F64FromInt(N)
    IN  F64DivSmall([n EXCEPT !.neg = neg], 10 ^ k)

\* a + b
F64Add(a, b) ==
    IF a.m = << >> /\ b.m = << >> THEN F64Zero(a.neg /\ b.neg)
    ELSE IF a.m = << >> THEN b
    ELSE IF b.m = << >> THEN a
    ELSE LET e0 == MinOf(a.e, b.e)
             A  == BShl(a.m, a.e - e0)
             B  == BShl(b.m, b.e - e0)
             c  == BCmp(A, B)
         IN  IF a.neg = b.neg THEN F64Round(a.neg, BAdd(A, B), e0)
             ELSE IF c = 0 THEN F64Zero(FALSE)
             ELSE IF c = 1 THEN F64Round(a.neg, BSub(A, B), e0)
             ELSE F64Round(b.neg, BSub(B, A), e0)

\* a * c for an integer-valued f64 factor 0 < c < 2^16 (10.0)
F64MulSmall(a, c) == F64Round(a.neg, BMulSmall(a.m, c), a.e)

\* a < b (IEEE: -0.0 and 0.0 are equal)
F64Lt(a, b) ==
    IF a.m = << >> /\ b.m = << >> THEN FALSE
    ELSE IF a.m = << >> THEN ~b.neg
    ELSE IF b.m = << >> THEN a.neg
    ELSE IF a.neg # b.neg THEN a.neg
    ELSE LET c == IF a.e < b.e THEN -1 ELSE IF a.e > b.e THEN 1 ELSE BCmp(a.m, b.m)
         IN  IF a.neg THEN c = 1 ELSE c = -1

\* f64::round: to the nearest integer, halves away from zero
F64RoundInt(a) ==
    IF a.m = << >> \/ a.e >= 0 THEN a
    ELSE LET k    == -a.e
             I    == BShr(a.m, k)
             low  == BLowBits(a.m, k)
             half == BShl(<< 1 >>, k - 1)
         IN  F64Round(a.neg, IF BCmp(low, half) >= 0 THEN BAdd(I, << 1 >>) ELSE I, 0)

\* numeric equality of f64 (0.0 = -0.0)
F64Eq(a, b) == ~F64Lt(a, b) /\ ~F64Lt(b, a)

round_off(value) == F64DivSmall(F64RoundInt(F64MulSmall(value, 10)), 10)

\* `{:.1}` of an f64: sign and tenths of the decimal nearest to the exact
\* binary value (ties to even); -0.0 keeps its sign.
BToInt(a) == Limb(a, 1) + LimbBase * Limb(a, 2)

Fmt1(v) ==
    IF v.m = << >> THEN [neg |-> v.neg, tenths |-> 0]
    ELSE LET M10 == BMulSmall(v.m, 10)
         IN  IF v.e >= 0 THEN [neg |-> v.neg, tenths |-> BToInt(BShl(M10, v.e))]
             ELSE LET k    == -v.e
                      I    == BShr(M10, k)
                      c    == BCmp(BLowBits(M10, k), BShl(<< 1 >>, k - 1))
                      up   == c = 1 \/ (c = 0 /\ BIsOdd(I))
                  IN  [neg |-> v.neg,
                       tenths |-> BToInt(IF up THEN BAdd(I, << 1 >>) ELSE I)]

(***************************************************************************)
(* u32 arithmetic (count: u32).  overflow_checks is the build's setting:   *)
(* with it `+=` panics on overflow, without it the sum wraps.              *)
(***************************************************************************)
U32Bits == 32

U32Add(a, b) ==
    LET s == BAdd(a, b)
    IN  [v |-> BLowBits(s, U32Bits), overflow |-> BBitLen(s) > U32Bits]

(***************************************************************************)
(* Bytes and slices.  Rust's s[from..to] is Slice(s, from, to), 0-based.   *)
(***************************************************************************)
NL == 10
SEMI == 59
DOT == 46
MINUS == 45
DIGIT0 == 48
DIGIT9 == 57

None == -1

Slice(s, from, to) == SubSeq(s, from + 1, to)

SliceFrom(s, from) == SubSeq(s, from + 1, Len(s))

\* memchr: 0-based index of the first occurrence of byte b in s
memchr(b, s) ==
    IF \E i \in 1..Len(s) : s[i] = b
    THEN (CHOOSE i \in 1..Len(s) : s[i] = b /\ \A j \in 1..(i - 1) : s[j] # b) - 1
    ELSE None

\* 0-based index of the last '\n' of bytes
find_new_line_pos(bytes) ==
    IF \E i \in 1..Len(bytes) : bytes[i] = NL
    THEN (CHOOSE i \in 1..Len(bytes) :
            bytes[i] = NL /\ \A j \in (i + 1)..Len(bytes) : bytes[j] # NL) - 1
    ELSE None

IsDigit(b) == DIGIT0 <= b /\ b <= DIGIT9

RECURSIVE DigitsValue(_)
DigitsValue(s) ==
    IF s = << >> THEN 0
    ELSE 10 * DigitsValue(SubSeq(s, 1, Len(s) - 1)) + (s[Len(s)] - DIGIT0)

\* fast_float::parse::<f64> of a decimal without exponent: an optional '-',
\* digits with at most one '.', at least one digit.  Err is [ok |-> FALSE].
parse(s) ==
    LET neg  == s # << >> /\ s[1] = MINUS
        body == IF neg THEN SliceFrom(s, 1) ELSE s
        dot  == memchr(DOT, body)
        digs == SelectSeq(body, IsDigit)
        ok   == /\ digs # << >>
                /\ \A i \in 1..Len(body) : IsDigit(body[i]) \/ body[i] = DOT
                /\ Len(body) - Len(digs) <= 1
        k    == IF dot = None THEN 0 ELSE Len(body) - dot - 1
    IN  IF ok THEN [ok |-> TRUE, v |-> F64FromDec(neg, DigitsValue(digs), k)]
        ELSE [ok |-> FALSE, v |-> F64Zero(FALSE)]

(***************************************************************************)
(* Bounds of the model.                                                    *)
(***************************************************************************)
\* buf.len(): READ_BUF_SIZE scaled down, for the files of records
RecordBufSize == 12
\* buf.len() for the files of arbitrary bytes
SplitBufSize == 3
\* capacity of the bounded channel (1_000 in the program), scaled down
ChannelCap == 1
\* available_parallelism() is any of 1..MaxThreads
MaxThreads == 2
\* lines per file of records
MaxLines == 2
\* length of a file of arbitrary bytes
MaxFileLen == 5
\* a read returns all it can, or a short count of at most MaxShortRead bytes
MaxShortRead == 3

VARIABLES
    file,                \* the bytes of the input file
    pos,                 \* bytes of the file already returned by read
    buf,                 \* the read buffer (vec![0; READ_BUF_SIZE])
    bytes_not_processed, \* carried-over bytes at the front of buf
    bytes_read,          \* result of the last read while a send is pending
    ppc,                 \* main thread: read, send, join, finalize, write, exit, panic
    queue,               \* chunks in the channel, oldest first
    wpc,                 \* per worker thread: run, done, panicked
    wmap,                \* per worker thread: its private result map
    joined,              \* handles already joined
    result,              \* the global map of calculate_station_values
    stdout,              \* what was printed to standard output, in order
    overflow_checks,     \* build setting: integer overflow panics
    sent,                \* history: every chunk sent, in send order
    processed,           \* history: per dequeued chunk, the worker and the chunk
    old_station,         \* main_old.rs: the StationValues of one station
    observations,        \* main_old.rs: the value texts observed for it
    median,              \* main_old.rs: what get_median returned
    mpc,                 \* main_old.rs: off, observe, merge, done, panic
    old_maps,            \* main_old.rs: the station's entry in each thread's map
    old_joined           \* main_old.rs: entries already merged into old_station

\* the state of main_old.rs (the exact-median program)
old_vars == << old_station, observations, median, mpc, old_maps, old_joined >>

\* the state of main.rs (the streaming-mean program)
main_vars == << file, pos, buf, bytes_not_processed, bytes_read, ppc, queue, wpc,
                wmap, joined, result, stdout, overflow_checks, sent, processed >>

vars == << main_vars, old_vars >>

\* main_old.rs not running: no StationValues, nothing returned
NoStation == [count |-> -1]

NoMedian == [none |-> TRUE]

n_threads == Len(wpc)

Workers == 1..n_threads

EmptyMap == << >>

(***************************************************************************)
(* src/main.rs: StationValues and process_chunk                            *)
(***************************************************************************)
One == << 1 >>

\* .or_insert(StationValues { min: value, max: value, mean: value, count: 1 })
StationNew(value) == [min |-> value, max |-> value, mean |-> value, count |-> One]

\* the and_modify closure of process_chunk
StationObserve(e, value) ==
    [min   |-> IF F64Lt(value, e.min) THEN value ELSE e.min,
     max   |-> IF F64Lt(e.max, value) THEN value ELSE e.max,
     mean  |-> F64Add(e.mean, value),
     count |-> U32Add(e.count, One).v]

\* result.entry(name).and_modify(..).or_insert(..)
Upsert(map, name, value) ==
    IF name \in DOMAIN map
    THEN [map EXCEPT ![name] = StationObserve(@, value)]
    ELSE [n \in DOMAIN map \cup {name} |->
            IF n = name THEN StationNew(value) ELSE map[n]]

\* process_chunk: [panic, result]; a panic leaves no result
RECURSIVE process_chunk(_, _)
process_chunk(buffer, map) ==
    LET comma_seperator == memchr(SEMI, buffer)
    IN  IF comma_seperator = None THEN [panic |-> FALSE, result |-> map]
        ELSE LET end == memchr(NL, SliceFrom(buffer, comma_seperator))
             IN  IF end = None THEN [panic |-> TRUE, result |-> EmptyMap]
                 ELSE LET name  == Slice(buffer, 0, comma_seperator)
                          value == parse(Slice(buffer, comma_seperator + 1,
                                               comma_seperator + end))
                      IN  IF ~value.ok THEN [panic |-> TRUE, result |-> EmptyMap]
                          ELSE IF /\ overflow_checks
                                  /\ name \in DOMAIN map
                                  /\ U32Add(map[name].count, One).overflow
                          THEN [panic |-> TRUE, result |-> EmptyMap]
                          ELSE process_chunk(
                                   SliceFrom(buffer, comma_seperator + end + 1),
                                   Upsert(map, name, value.v))

(***************************************************************************)
(* src/main.rs: calculate_station_values, merge and finalize               *)
(***************************************************************************)
\* the and_modify closure of the merge loop
MergeEntry(e, station_values) ==
    [min   |-> IF F64Lt(station_values.min, e.min) THEN station_values.min ELSE e.min,
     max   |-> IF F64Lt(e.max, station_values.max) THEN station_values.max ELSE e.max,
     mean  |-> F64Add(e.mean, station_values.mean),
     count |-> U32Add(e.count, station_values.count).v]

\* for (station_name, station_values) in map.into_iter() { result.entry(..).. }
\* (the names of one map are distinct, so its iteration order is immaterial)
MergeMap(res, map) ==
    [n \in DOMAIN res \cup DOMAIN map |->
        IF n \in DOMAIN res /\ n \in DOMAIN map THEN MergeEntry(res[n], map[n])
        ELSE IF n \in DOMAIN res THEN res[n] ELSE map[n]]

MergeOverflows(res, map) ==
    \E n \in DOMAIN res \cap DOMAIN map : U32Add(res[n].count, map[n].count).overflow

\* station_values.count as f64, as the divisor of the mean (count >= 1)
CountAsDivisor(count) == BToInt(count)

\* the loop "Calculate the mean for all entries and round off"
FinalizeEntry(station_values) ==
    [min   |-> round_off(station_values.min),
     max   |-> round_off(station_values.max),
     mean  |-> round_off(F64DivSmall(station_values.mean,
                                     CountAsDivisor(station_values.count))),
     count |-> station_values.count]

FinalizeMap(res) == [n \in DOMAIN res |-> FinalizeEntry(res[n])]

(***************************************************************************)
(* src/main.rs: write_result_stdout                                        *)
(***************************************************************************)
\* byte-wise lexicographic order of names (Ord of Box<[u8]>)
NameLess(a, b) ==
    \/ \E i \in 1..MinOf(Len(a), Len(b)) :
          a[i] < b[i] /\ \A j \in 1..(i - 1) : a[j] = b[j]
    \/ Len(a) < Len(b) /\ \A j \in 1..Len(a) : a[j] = b[j]

\* the keys of the BTreeMap, in iteration order
RECURSIVE OrderedNames(_)
OrderedNames(S) ==
    IF S = {} THEN << >>
    ELSE LET first == CHOOSE n \in S : \A o \in S \ {n} : NameLess(n, o)
         IN  << first >> \o OrderedNames(S \ {first})

\* std::str::from_utf8(name).is_ok(), for names of ASCII bytes
IsUtf8(name) == \A i \in 1..Len(name) : name[i] < 128

\* one print! of the loop: name=min/mean/max followed by "}" or ", "
ReportEntry(name, station_values, last) ==
    [name |-> name,
     min  |-> Fmt1(station_values.min),
     mean |-> Fmt1(station_values.mean),
     max  |-> Fmt1(station_values.max),
     end  |-> IF last THEN "}" ELSE ", "]

\* what write_result_stdout prints: "{", then the entries up to the first
\* name that is not UTF-8 (where it panics)
RECURSIVE ReportEntries(_, _, _)
ReportEntries(res, names, i) ==
    IF i > Len(names) \/ ~IsUtf8(names[i]) THEN << >>
    ELSE << ReportEntry(names[i], res[names[i]], i = Len(names)) >>
         \o ReportEntries(res, names, i + 1)

write_result_stdout(res) ==
    << "{" >> \o ReportEntries(res, OrderedNames(DOMAIN res), 1)

NoNewLineMessage == "No new line found in the read buffer"

(***************************************************************************)
(* The main thread: the read loop of calculate_station_values              *)
(***************************************************************************)
\* mutant of SenderAlive: the sender is never dropped
SenderNeverDropped == TRUE

\* the sender is dropped after the read loop
SenderAlive == ppc \in {"read", "send"}

\* the process lives until main returns or panics
Running == ppc \notin {"exit", "panic"}

\* file.read(&mut buf[bytes_not_processed..]) returned 0: break; drop(sender)
ReadEof ==
    /\ ppc = "read"
    /\ Len(buf) - bytes_not_processed = 0 \/ Len(file) - pos = 0
    /\ ppc' = "join"
    /\ UNCHANGED << file, pos, buf, bytes_not_processed, bytes_read, queue, wpc,
                    wmap, joined, result, stdout, overflow_checks, sent, processed,
                    old_vars >>

\* the counts a read may return with room bytes of buffer and rest bytes of file
ReadSizes(room, rest) ==
    {n \in 1..MinOf(room, rest) : n <= MaxShortRead \/ n = MinOf(room, rest)}

\* mutant of IsFull: the full buffer is not noticed
NeverFull(n, size) == FALSE

\* if bytes_not_processed == buf.len() { panic!(..) }
IsFull(n, size) == n = size

\* file.read returned n > 0 bytes
ReadData ==
    /\ ppc = "read"
    /\ \E n \in ReadSizes(Len(buf) - bytes_not_processed, Len(file) - pos) :
          LET filled     == [i \in 1..Len(buf) |->
                               IF bytes_not_processed < i /\ i <= bytes_not_processed + n
                               THEN file[pos + i - bytes_not_processed]
                               ELSE buf[i]]
              actual_buf == SubSeq(filled, 1, bytes_not_processed + n)
          IN  /\ pos' = pos + n
              /\ buf' = filled
              /\ IF find_new_line_pos(actual_buf) = None
                 THEN /\ stdout' = Append(stdout, NoNewLineMessage)
                      /\ bytes_not_processed' = bytes_not_processed + n
                      /\ bytes_read' = 0
                      /\ ppc' = IF IsFull(bytes_not_processed + n, Len(buf))
                                THEN "panic" ELSE "read"
                 ELSE /\ ppc' = "send"
                      /\ bytes_read' = n
                      /\ UNCHANGED << bytes_not_processed, stdout >>
    /\ UNCHANGED << file, queue, wpc, wmap, joined, result, overflow_checks,
                    sent, processed, old_vars >>

\* mutant of ChunkCut: the slice stops before the newline
ChunkCutBeforeNewline(actual_buf, last_new_line_index) ==
    Slice(actual_buf, 0, last_new_line_index)

\* Box::<[u8]>::from(&actual_buf[..(last_new_line_index + 1)])
ChunkCut(actual_buf, last_new_line_index) ==
    Slice(actual_buf, 0, last_new_line_index + 1)

\* mutant of CopySource: the copy starts one byte early, at the newline
CopySourceAtNewline(from, i) == from + i - 1

\* copy_within(from.., 0): the 1-based index in the buffer of the byte that
\* lands at 1-based index i
CopySource(from, i) == from + i

\* actual_buf.copy_within(from.., 0), on the whole buffer b; actual_len is
\* actual_buf.len()
copy_within(b, from, actual_len) ==
    [i \in 1..Len(b) |-> IF i <= actual_len - from THEN b[CopySource(from, i)] ELSE b[i]]

\* mutant of Unprocessed: the newline sent is counted as carried over
UnprocessedWithNewline(actual_len, last_new_line_index) ==
    actual_len - last_new_line_index

\* bytes_not_processed = actual_buf.len() - last_new_line_index - 1
Unprocessed(actual_len, last_new_line_index) ==
    actual_len - last_new_line_index - 1

\* sender.send(buf_boxed) once the channel has room (the main thread holds a
\* receiver, so the channel never disconnects), then the carry-over copy
Send ==
    /\ ppc = "send"
    /\ Len(queue) < ChannelCap
    /\ LET actual_len          == bytes_not_processed + bytes_read
           actual_buf          == SubSeq(buf, 1, actual_len)
           last_new_line_index == find_new_line_pos(actual_buf)
           buf_boxed           == ChunkCut(actual_buf, last_new_line_index)
       IN  /\ queue' = Append(queue, buf_boxed)
           /\ sent' = Append(sent, buf_boxed)
           /\ buf' = copy_within(buf, last_new_line_index + 1, actual_len)
           /\ bytes_not_processed' = Unprocessed(actual_len, last_new_line_index)
    /\ bytes_read' = 0
    /\ ppc' = "read"
    /\ UNCHANGED << file, pos, wpc, wmap, joined, result, stdout,
                    overflow_checks, processed, old_vars >>

(***************************************************************************)
(* The worker threads: for buf in receiver { process_chunk(&buf, ..) }     *)
(***************************************************************************)
WorkerRecv(w) ==
    /\ Running
    /\ wpc[w] = "run"
    /\ queue # << >>
    /\ LET r == process_chunk(Head(queue), wmap[w])
       IN  /\ wpc' = [wpc EXCEPT ![w] = IF r.panic THEN "panicked" ELSE "run"]
           /\ wmap' = [wmap EXCEPT ![w] = r.result]
    /\ queue' = Tail(queue)
    /\ processed' = Append(processed, [worker |-> w, chunk |-> Head(queue)])
    /\ UNCHANGED << file, pos, buf, bytes_not_processed, bytes_read, ppc,
                    joined, result, stdout, overflow_checks, sent,
                    old_vars >>

\* mutant of RecvEnds: the iterator ends as soon as the channel is empty
RecvEndsOnEmpty == queue = << >>

\* the receiver's iterator ends: the channel is empty and the sender dropped
RecvEnds == queue = << >> /\ ~SenderAlive

\* the loop ends and the thread returns its result
WorkerExit(w) ==
    /\ Running
    /\ wpc[w] = "run"
    /\ RecvEnds
    /\ wpc' = [wpc EXCEPT ![w] = "done"]
    /\ UNCHANGED << file, pos, buf, bytes_not_processed, bytes_read, ppc, queue,
                    wmap, joined, result, stdout, overflow_checks, sent, processed,
                    old_vars >>

(***************************************************************************)
(* The main thread after the read loop                                     *)
(***************************************************************************)
\* mutant of JoinIsErr: the result of join is not looked at
JoinNeverErr(w) == FALSE

\* handle.join() is Err: the thread panicked
\* (unwrap of the Err panics the main thread)
JoinIsErr(w) == wpc[w] = "panicked"

JoinNeverBlocks(w) == TRUE

\* handle.join() returns: the thread has returned or panicked
JoinReturns(w) == wpc[w] # "run"

\* handle.join().unwrap() of the next handle, and the merge of its map
\* (wmap keeps the map that was moved into the merge, as a history)
Join ==
    /\ ppc = "join"
    /\ joined < n_threads
    /\ JoinReturns(joined + 1)
    /\ IF JoinIsErr(joined + 1)
          \/ (overflow_checks /\ MergeOverflows(result, wmap[joined + 1]))
       THEN /\ ppc' = "panic"
            /\ UNCHANGED << joined, result >>
       ELSE /\ result' = MergeMap(result, wmap[joined + 1])
            /\ joined' = joined + 1
            /\ UNCHANGED ppc
    /\ UNCHANGED << file, pos, buf, bytes_not_processed, bytes_read, queue, wpc,
                    wmap, stdout, overflow_checks, sent, processed,
                    old_vars >>

\* all handles joined: means and rounding, then return to main
Finalize ==
    /\ ppc = "join"
    /\ joined = n_threads
    /\ result' = FinalizeMap(result)
    /\ ppc' = "write"
    /\ UNCHANGED << file, pos, buf, bytes_not_processed, bytes_read, queue, wpc,
                    wmap, joined, stdout, overflow_checks, sent, processed,
                    old_vars >>

\* main: write_result_stdout(result)
WriteResult ==
    /\ ppc = "write"
    /\ stdout' = stdout \o write_result_stdout(result)
    /\ ppc' = IF \A n \in DOMAIN result : IsUtf8(n) THEN "exit" ELSE "panic"
    /\ UNCHANGED << file, pos, buf, bytes_not_processed, bytes_read, queue, wpc,
                    wmap, joined, result, overflow_checks, sent, processed,
                    old_vars >>

Next ==
    \/ ReadEof
    \/ ReadData
    \/ Send
    \/ \E w \in Workers : WorkerRecv(w)
    \/ \E w \in Workers : WorkerExit(w)
    \/ Join
    \/ Finalize
    \/ WriteResult

(***************************************************************************)
(* Initial states                                                          *)
(***************************************************************************)
RECURSIVE Concat(_)
Concat(ss) == IF ss = << >> THEN << >> ELSE Head(ss) \o Concat(Tail(ss))

SeqsUpTo(S, n) == UNION {[1..k -> S] : k \in 0..n}

\* station names "A", "B"; value texts "0.1", "4.8"
StationNames == {<< 65 >>, << 66 >>}

ValueTexts == {<< 48, DOT, 49 >>, << 52, DOT, 56 >>}

ValidLines == {n \o << SEMI >> \o v \o << NL >> : n \in StationNames, v \in ValueTexts}

\* "A;x\n" (the value is no number) and "B\n" (no separator)
BadLines == {<< 65, SEMI, 120, NL >>, << 66, NL >>}

\* nothing, or the unterminated record "B;4"
Tails == {<< >>, << 66, SEMI, 52 >>}

RecordFiles ==
    {Concat(ls) \o t : ls \in SeqsUpTo(ValidLines \cup BadLines, MaxLines), t \in Tails}

\* arbitrary bytes over 'x', ';' and '\n'
ByteFiles == SeqsUpTo({120, SEMI, NL}, MaxFileLen)

InitWith(files, size) ==
    /\ file \in files
    /\ pos = 0
    /\ buf = Zeros(size)
    /\ bytes_not_processed = 0
    /\ bytes_read = 0
    /\ ppc = "read"
    /\ queue = << >>
    /\ \E n \in 1..MaxThreads :
          /\ wpc = [w \in 1..n |-> "run"]
          /\ wmap = [w \in 1..n |-> EmptyMap]
    /\ joined = 0
    /\ result = EmptyMap
    /\ stdout = << >>
    /\ overflow_checks = FALSE
    /\ sent = << >>
    /\ processed = << >>
    /\ old_station = NoStation
    /\ observations = << >>
    /\ median = NoMedian
    /\ mpc = "off"
    /\ old_maps = << >>
    /\ old_joined = 0

Init == InitWith(RecordFiles, RecordBufSize)

InitSplit == InitWith(ByteFiles, SplitBufSize)

Spec == Init /\ [][Next]_vars

SplitSpec == InitSplit /\ [][Next]_vars

(***************************************************************************)
(* src/main_old.rs: StationValues with a frequency map, and its median     *)
(***************************************************************************)
\* the buckets are 0..=GridMax (0..=1998 in the source)
GridMax == 4
\* values observed for the station
MaxObservations == 4

\* -99.9 + (x as f64 * 0.1)
BucketKeyOf(x) ==
    F64Add(F64FromDec(TRUE, 999, 1), F64MulSmall(F64FromDec(FALSE, 1, 1), x))

\* the keys of the frequency map, by the x they were made from
BucketKey == [x \in 0..GridMax |-> BucketKeyOf(x)]

\* mutant of BucketOf: a value without a key is counted in the first bucket
BucketOrFirst(value) ==
    IF \E x \in 0..GridMax : F64Eq(BucketKey[x], value)
    THEN CHOOSE x \in 0..GridMax : F64Eq(BucketKey[x], value)
    ELSE 0

\* the key NotNan compares equal to value, if any (frequency.get_mut(..))
BucketOf(value) ==
    IF \E x \in 0..GridMax : F64Eq(BucketKey[x], value)
    THEN CHOOSE x \in 0..GridMax : F64Eq(BucketKey[x], value)
    ELSE None

StationValues_new ==
    [min |-> F64Zero(FALSE), max |-> F64Zero(FALSE), count |-> 0,
     frequency |-> [x \in 0..GridMax |-> 0]]

\* StationValues::new_with_value, where the key exists
new_with_value(value) ==
    [min |-> value, max |-> value, count |-> 1,
     frequency |-> [StationValues_new.frequency EXCEPT ![BucketOf(value)] = @ + 1]]

\* the and_modify closure of process_chunk in main_old.rs, where the key exists
ObserveOld(e, value) ==
    [min       |-> IF F64Lt(value, e.min) THEN value ELSE e.min,
     max       |-> IF F64Lt(e.max, value) THEN value ELSE e.max,
     frequency |-> [e.frequency EXCEPT ![BucketOf(value)] = @ + 1],
     count     |-> e.count + 1]

\* the loop of get_nth_value over the frequency map in the order of iteration
RECURSIVE NthWalk(_, _, _, _, _)
NthWalk(sv, order, i, cur, n) ==
    IF i > Len(order) THEN F64Zero(FALSE)
    ELSE IF n <= cur + sv.frequency[order[i]] THEN BucketKey[order[i]]
    ELSE NthWalk(sv, order, i + 1, cur + sv.frequency[order[i]], n)

get_nth_value(sv, order, n) == NthWalk(sv, order, 1, 0, n)

get_median(sv, order) ==
    IF sv.count % 2 = 0
    THEN LET left_mid_index == (sv.count \div 2) - 1
         IN  F64DivSmall(F64Add(get_nth_value(sv, order, left_mid_index),
                                get_nth_value(sv, order, left_mid_index + 1)), 2)
    ELSE get_nth_value(sv, order, sv.count \div 2)

\* the orders a HashMap with these keys may be iterated in
IterationOrders ==
    {o \in [1..(GridMax + 1) -> 0..GridMax] :
        \A i, j \in 1..(GridMax + 1) : i # j => o[i] # o[j]}

\* the grid value -99.9 + x/10 as the text of a record, "-99.9" .. "-99.0"
GridText(x) == << MINUS, DIGIT9, DIGIT9, DOT, DIGIT9 - x >>

\* "500.0" and "-100.0", outside the domain, and "-99.85", off the grid
OffGridTexts ==
    {<< 53, DIGIT0, DIGIT0, DOT, DIGIT0 >>,
     << MINUS, 49, DIGIT0, DIGIT0, DOT, DIGIT0 >>,
     << MINUS, DIGIT9, DIGIT9, DOT, 56, 53 >>}

\* the value texts of the records of the station
ObservedTexts == {GridText(x) : x \in 0..GridMax} \cup OffGridTexts

\* one record of the station is processed (process_chunk of main_old.rs);
\* both new_with_value and the closure unwrap the bucket of the value (what
\* the closure did to min and max before its unwrap is lost with the map of
\* the panicking thread)
Observe ==
    /\ mpc = "observe"
    /\ Len(observations) < MaxObservations
    /\ \E t \in ObservedTexts :
          LET value == parse(t).v
          IN  /\ observations' = Append(observations, t)
              /\ IF BucketOf(value) = None
                 THEN /\ mpc' = "panic"
                      /\ UNCHANGED old_station
                 ELSE /\ old_station' = IF old_station = NoStation
                                        THEN new_with_value(value)
                                        ELSE ObserveOld(old_station, value)
                      /\ UNCHANGED mpc
    /\ UNCHANGED << median, old_maps, old_joined, main_vars >>

\* write_result_stdout of main_old.rs asks the station for its median
GetMedian ==
    /\ mpc = "observe"
    /\ old_station # NoStation
    /\ \E order \in IterationOrders : median' = get_median(old_station, order)
    /\ mpc' = "done"
    /\ UNCHANGED << old_station, observations, old_maps, old_joined, main_vars >>

MedianNext == Observe \/ GetMedian

\* main.rs is not running
MainOff ==
    /\ file = << >>
    /\ pos = 0
    /\ buf = << >>
    /\ bytes_not_processed = 0
    /\ bytes_read = 0
    /\ ppc = "off"
    /\ queue = << >>
    /\ wpc = << >>
    /\ wmap = << >>
    /\ joined = 0
    /\ result = EmptyMap
    /\ stdout = << >>
    /\ overflow_checks = FALSE
    /\ sent = << >>
    /\ processed = << >>

MedianInit ==
    /\ MainOff
    /\ old_station = NoStation
    /\ observations = << >>
    /\ median = NoMedian
    /\ mpc = "observe"
    /\ old_maps = << >>
    /\ old_joined = 0

MedianSpec == MedianInit /\ [][MedianNext]_vars

(***************************************************************************)
(* src/main_old.rs: the merge loop as a function of the threads' entries   *)
(***************************************************************************)
\* the and_modify closure of the merge loop of main_old.rs: min and max
\* (its third statement, e.mean += station_values.mean, names a field that
\* StationValues does not have; frequency and count are not touched)
OldMergeEntry(e, sv) ==
    [e EXCEPT !.min = IF F64Lt(sv.min, e.min) THEN sv.min ELSE e.min,
              !.max = IF F64Lt(e.max, sv.max) THEN sv.max ELSE e.max]

\* the entry of a thread that processed the value texts ts, in order
RECURSIVE EntryOf(_)
EntryOf(ts) ==
    IF Len(ts) = 1 THEN new_with_value(parse(ts[1]).v)
    ELSE ObserveOld(EntryOf(SubSeq(ts, 1, Len(ts) - 1)), parse(ts[Len(ts)]).v)

\* records of the station seen by one thread
MaxThreadRecords == 2

\* the texts whose values are keys of the frequency map
BucketTexts == {t \in ObservedTexts : BucketOf(parse(t).v) # None}

ThreadEntries ==
    {EntryOf(ts) : ts \in SeqsUpTo(BucketTexts, MaxThreadRecords) \ {<< >>}}

\* result.entry(station_name).and_modify(..).or_insert(station_values) for
\* the station's entry in the map of the next thread
MergeOld ==
    /\ mpc = "merge"
    /\ old_joined < Len(old_maps)
    /\ old_station' = IF old_station = NoStation
                       THEN old_maps[old_joined + 1]
                       ELSE OldMergeEntry(old_station, old_maps[old_joined + 1])
    /\ old_joined' = old_joined + 1
    /\ UNCHANGED << observations, median, mpc, old_maps, main_vars >>

OldMergeNext == MergeOld

\* the threads have returned their maps, each with an entry of the station
OldMergeInit ==
    /\ MainOff
    /\ old_station = NoStation
    /\ observations = << >>
    /\ median = NoMedian
    /\ mpc = "merge"
    /\ \E n \in 1..MaxThreads : old_maps \in [1..n -> ThreadEntries]
    /\ old_joined = 0

OldMergeSpec == OldMergeInit /\ [][OldMergeNext]_vars

(***************************************************************************)
(* The merge loop of main.rs as a function of the per-thread maps          *)
(***************************************************************************)
U32Max == BSub(BShl(One, U32Bits), One)

\* counts a thread's map may hold for a station: 1, 2^31, 2^32 - 1
MergeCounts == {One, BShl(One, U32Bits - 1), U32Max}

\* the entry of a station after count records "name;0.0"
ZeroEntry(count) ==
    [min |-> F64Zero(FALSE), max |-> F64Zero(FALSE), mean |-> F64Zero(FALSE),
     count |-> count]

ThreadMaps ==
    UNION {[D -> {ZeroEntry(c) : c \in MergeCounts}] : D \in SUBSET StationNames}

\* the threads have returned their maps; main is at the merge loop
MergeInit ==
    /\ file = << >>
    /\ pos = 0
    /\ buf = Zeros(RecordBufSize)
    /\ bytes_not_processed = 0
    /\ bytes_read = 0
    /\ ppc = "join"
    /\ queue = << >>
    /\ \E n \in 1..MaxThreads :
          /\ wpc = [w \in 1..n |-> "done"]
          /\ wmap \in [1..n -> ThreadMaps]
    /\ joined = 0
    /\ result = EmptyMap
    /\ stdout = << >>
    /\ overflow_checks \in BOOLEAN
    /\ sent = << >>
    /\ processed = << >>
    /\ old_station = NoStation
    /\ observations = << >>
    /\ median = NoMedian
    /\ mpc = "off"
    /\ old_maps = << >>
    /\ old_joined = 0

MergeNext == Join

MergeSpec == MergeInit /\ [][MergeNext]_vars

(***************************************************************************)
(* Inputs of one station with ties in the mean; inputs with bad records    *)
(***************************************************************************)
MaxMeanLines == 4

\* "A;0.1\n" and "A;4.8\n"
MeanLines == {<< 65, SEMI >> \o v \o << NL >> : v \in ValueTexts}

MeanFiles == {Concat(ls) : ls \in SeqsUpTo(MeanLines, MaxMeanLines)}

\* READ_BUF_SIZE for these inputs: the buffer holds one record
MeanBufSize == 6

MeanInit == InitWith(MeanFiles, MeanBufSize)

MeanSpec == MeanInit /\ [][Next]_vars

\* the files for the claims about the pipeline: "A;0.1\n" and the bad
\* record "A;x\n"
PipeLines == {<< 65, SEMI, 48, DOT, 49, NL >>, << 65, SEMI, 120, NL >>}

PipeFiles == {Concat(ls) : ls \in SeqsUpTo(PipeLines, MaxLines)}

\* READ_BUF_SIZE for these inputs: the buffer holds one record
PipeBufSize == 6

PipeInit == InitWith(PipeFiles, PipeBufSize)

PipeSpec == PipeInit /\ [][Next]_vars

MaxFairLines == 3

\* "A;x\n", on which process_chunk panics, and "B\n", which it skips
FairLines == BadLines

FairFiles == {Concat(ls) : ls \in SeqsUpTo(FairLines, MaxFairLines)}

\* READ_BUF_SIZE for these inputs: the buffer holds one record
FairBufSize == 4

FairInit == InitWith(FairFiles, FairBufSize)

\* every thread that can take a step eventually does
Fairness ==
    /\ WF_vars(ReadEof \/ ReadData \/ Send \/ Join \/ Finalize \/ WriteResult)
    /\ \A w \in 1..MaxThreads :
          WF_vars(w \in Workers /\ (WorkerRecv(w) \/ WorkerExit(w)))

FairSpec == FairInit /\ [][Next]_vars /\ Fairness

(***************************************************************************)
(* Valid inputs under a fair scheduler                                     *)
(***************************************************************************)
\* files of valid records only
ValidFiles == {Concat(ls) : ls \in SeqsUpTo(ValidLines, MaxLines)}

LiveInit == InitWith(ValidFiles, RecordBufSize)

\* some thread can take a step: the guards of the actions of Next
\* (a thread in read, write or with a chunk to take is never blocked; send
\* blocks on a full channel, a worker on an empty channel whose sender
\* lives, join on a running thread)
CanStep ==
    \/ ppc = "read"
    \/ ppc = "send" /\ Len(queue) < ChannelCap
    \/ \E w \in Workers :
          Running /\ wpc[w] = "run" /\ (queue # << >> \/ (queue = << >> /\ ~SenderAlive))
    \/ ppc = "join" /\ joined < n_threads /\ wpc[joined + 1] # "run"
    \/ ppc = "join" /\ joined = n_threads
    \/ ppc = "write"

\* weak fairness of Next, with ENABLED <<Next>>_vars written out as CanStep:
\* as long as some thread can take a step, a step is eventually taken
Scheduling == []<>(~CanStep) \/ []<><<TRUE>>_vars

LiveSpec == LiveInit /\ [][Next]_vars /\ Scheduling

(***************************************************************************)
(* Properties                                                              *)
(***************************************************************************)
RECURSIVE TotalLen(_)
TotalLen(ss) == IF ss = << >> THEN 0 ELSE Len(Head(ss)) + TotalLen(Tail(ss))

\* where chunk k starts in the file: the bytes of the chunks sent before it
ChunkOffset(k) == TotalLen(SubSeq(sent, 1, k - 1))

\* the read loop was left by its break (the sender is dropped)
LoopDone == ppc \in {"join", "write", "exit"}

EndsWithNewline(f) == f # << >> /\ f[Len(f)] = NL

\* every record of f, its newline included, fits in size bytes
RecordsFit(f, size) ==
    \A i \in 1..Len(f) : \A j \in i..Len(f) :
        (\A k \in i..j : f[k] # NL) => j - i + 1 < size

\* C1: every chunk sent is non-empty, ends with '\n' and is the bytes of the
\* file from the end of the chunk before it, where a record begins (the byte
\* before it in the file, if any, is '\n'): no chunk boundary falls inside a
\* record, for every byte stream and all read sizes.
C1_ChunksAreWholeRecords ==
    \A k \in 1..Len(sent) :
        LET c   == sent[k]
            off == ChunkOffset(k)
        IN  /\ c # << >>
            /\ c[Len(c)] = NL
            /\ off + Len(c) <= Len(file)
            /\ off = 0 \/ file[off] = NL
            /\ c = SubSeq(file, off + 1, off + Len(c))

\* a second chunk of several bytes was sent and bytes are being carried over
C1_Witness ==
    /\ Len(sent) >= 2
    /\ Len(sent[2]) >= 2
    /\ bytes_not_processed > 0

\* C2: when the file ends with '\n' and each record fits in the buffer, the
\* chunks sent, concatenated in send order, are the file, once the read loop
\* has ended.
C2_RoundTrip ==
    (LoopDone /\ EndsWithNewline(file) /\ RecordsFit(file, Len(buf)))
        => Concat(sent) = file

\* the loop ended on such a file after a chunk that carried bytes over
C2_Witness ==
    /\ LoopDone
    /\ EndsWithNewline(file)
    /\ RecordsFit(file, Len(buf))
    /\ Len(sent) >= 2
    /\ Len(sent[2]) = Len(buf)

\* C3: the read loop is never left by its break with carried-over bytes
\* unprocessed; end of file with bytes after the last newline is a fatal
\* error, never a normal end with the trailing bytes dropped.
C3_EofWithLeftoverIsFatal == LoopDone => bytes_not_processed = 0

(***************************************************************************)
(* The input as the specification reads it: records name;value, one per    *)
(* line, values as decimals with one fractional digit, in tenths.          *)
(***************************************************************************)
\* the lines of f, without their newlines (f empty or ending with '\n')
RECURSIVE InputLines(_)
InputLines(f) ==
    IF f = << >> THEN << >>
    ELSE LET nl == memchr(NL, f)
         IN  << Slice(f, 0, nl) >> \o InputLines(SliceFrom(f, nl + 1))

IsTenthsText(t) ==
    LET body == IF t # << >> /\ t[1] = MINUS THEN SliceFrom(t, 1) ELSE t
    IN  /\ Len(body) >= 3
        /\ body[Len(body) - 1] = DOT
        /\ \A i \in 1..Len(body) : i # Len(body) - 1 => IsDigit(body[i])

IsRecordLine(l) ==
    LET semi == memchr(SEMI, l)
    IN  /\ semi # None
        /\ semi >= 1
        /\ IsTenthsText(SliceFrom(l, semi + 1))

ValidInput(f) ==
    /\ f = << >> \/ EndsWithNewline(f)
    /\ \A i \in 1..Len(InputLines(f)) : IsRecordLine(InputLines(f)[i])

RecordName(l) == Slice(l, 0, memchr(SEMI, l))

\* the value of a record line in tenths
RecordTenths(l) ==
    LET t    == SliceFrom(l, memchr(SEMI, l) + 1)
        neg  == t[1] = MINUS
        digs == SelectSeq(t, IsDigit)
    IN  IF neg THEN -DigitsValue(digs) ELSE DigitsValue(digs)

InputStations(f) == {RecordName(InputLines(f)[i]) : i \in 1..Len(InputLines(f))}

\* the values, in tenths, of station n, in file order
StationTenths(f, n) ==
    LET ls == SelectSeq(InputLines(f), LAMBDA l : RecordName(l) = n)
    IN  [i \in 1..Len(ls) |-> RecordTenths(ls[i])]

RECURSIVE SeqSum(_)
SeqSum(q) == IF q = << >> THEN 0 ELSE Head(q) + SeqSum(Tail(q))

SeqMin(q) == CHOOSE x \in {q[i] : i \in 1..Len(q)} : \A i \in 1..Len(q) : x <= q[i]

SeqMax(q) == CHOOSE x \in {q[i] : i \in 1..Len(q)} : \A i \in 1..Len(q) : x >= q[i]

Abs(x) == IF x < 0 THEN -x ELSE x

\* sum / n in tenths, rounded to a whole tenth, halves away from zero
MeanTenths(sum, n) ==
    LET q == (2 * Abs(sum) + n) \div (2 * n)
    IN  IF sum < 0 THEN -q ELSE q

\* the f64 nearest to t tenths
F64OfTenths(t) == F64FromDec(t < 0, Abs(t), 1)

\* the table is finalized (calculate_station_values has returned)
Finalized == ppc \in {"write", "exit"}

\* C4: for a valid input the finalized table holds exactly the stations of
\* the input, each with the smallest value, the largest value and the sum of
\* its values divided by their number, rounded to one decimal place, halves
\* away from zero.
C4_StreamingMean ==
    (Finalized /\ ValidInput(file)) =>
        /\ DOMAIN result = InputStations(file)
        /\ \A n \in DOMAIN result :
              LET vs == StationTenths(file, n)
              IN  /\ F64Eq(result[n].min, F64OfTenths(SeqMin(vs)))
                  /\ F64Eq(result[n].max, F64OfTenths(SeqMax(vs)))
                  /\ F64Eq(result[n].mean,
                           F64OfTenths(MeanTenths(SeqSum(vs), Len(vs))))

\* the sum of a station's counts in the maps of the threads joined so far
RECURSIVE ThreadCountSum(_, _)
ThreadCountSum(n, w) ==
    IF w = 0 THEN << >>
    ELSE BAdd(ThreadCountSum(n, w - 1),
              IF n \in DOMAIN wmap[w] THEN wmap[w][n].count ELSE << >>)

\* C5: while the maps of the threads are merged, each station's count in the
\* global map is the sum of its counts in the maps merged so far, so that
\* after the last join no record is missing from the counts.
C5_CountPreservation ==
    ppc = "join" =>
        \A n \in DOMAIN result : BCmp(result[n].count, ThreadCountSum(n, joined)) = 0

\* a value text with one fractional digit, in tenths
TextTenths(t) ==
    IF t[1] = MINUS THEN -DigitsValue(SelectSeq(t, IsDigit))
    ELSE DigitsValue(SelectSeq(t, IsDigit))

\* the values observed for the station, in tenths
ObservedTenths == [i \in 1..Len(observations) |-> TextTenths(observations[i])]

\* the values in tenths, in ascending order
RECURSIVE SortedTenths(_)
SortedTenths(q) ==
    IF q = << >> THEN << >>
    ELSE LET i == CHOOSE i \in 1..Len(q) : \A j \in 1..Len(q) : q[i] <= q[j]
         IN  << q[i] >> \o SortedTenths(SubSeq(q, 1, i - 1) \o SubSeq(q, i + 1, Len(q)))

\* the median of the fully sorted values (order statistics are 0-indexed)
SortedMedian(q) ==
    LET sorted == SortedTenths(q)
        count  == Len(q)
    IN  IF count % 2 = 1 THEN F64OfTenths(sorted[(count \div 2) + 1])
        ELSE F64DivSmall(F64Add(F64OfTenths(sorted[count \div 2]),
                                F64OfTenths(sorted[(count \div 2) + 1])), 2)

\* C6: for every non-empty multiset of grid values observed for a station,
\* get_median returns the median of the fully sorted multiset, whatever order
\* the frequency map is iterated in.
C6_MedianOfSorted == mpc = "done" => F64Eq(median, SortedMedian(ObservedTenths))

\* the table of the run in which one thread folds the records in file order
SequentialResult(f) == FinalizeMap(process_chunk(f, EmptyMap).result)

\* C7: for a fixed input the finalized table is the same for every split into
\* chunks, every number of threads and every assignment of chunks to threads:
\* it is the table of the sequential fold.
C7_OrderIndependence == Finalized => result = SequentialResult(file)

\* the chunks worker w has taken from the channel, in order
ChunksOf(w) ==
    LET mine == SelectSeq(processed, LAMBDA p : p.worker = w)
    IN  [i \in 1..Len(mine) |-> mine[i].chunk]

\* process_chunk applied to each chunk in turn
RECURSIVE FoldChunks(_, _)
FoldChunks(chunks, map) ==
    IF chunks = << >> THEN map
    ELSE FoldChunks(Tail(chunks), process_chunk(Head(chunks), map).result)

\* C8: the k-th chunk taken from the channel is the k-th chunk sent, and the
\* chunks not yet taken are exactly those in the channel, so every chunk is
\* processed by one worker, once; each worker's map is process_chunk applied
\* to the chunks it took; and when the global map is finalized every chunk
\* sent has been processed and the channel is empty.
C8_EachChunkOnce ==
    /\ Len(processed) + Len(queue) = Len(sent)
    /\ \A k \in 1..Len(processed) : processed[k].chunk = sent[k]
    /\ \A k \in 1..Len(queue) : queue[k] = sent[Len(processed) + k]
    /\ \A w \in Workers :
          wpc[w] # "panicked" => wmap[w] = FoldChunks(ChunksOf(w), EmptyMap)
    /\ Finalized => Len(processed) = Len(sent) /\ queue = << >>

\* the table was finalized after two chunks went to two different workers
C8_Witness ==
    /\ Finalized
    /\ Len(sent) = 2
    /\ Len(processed) = 2
    /\ processed[1].worker # processed[2].worker

AnyWorkerPanicked == \E w \in Workers : wpc[w] = "panicked"

\* C9: once a worker has panicked, the run eventually ends with the panic of
\* the main thread; the producer does not stay blocked in send.
C9_AbortOnWorkerFailure == AnyWorkerPanicked ~> (ppc = "panic")

\* the report of write_result_stdout begins with "{"
ReportWritten == \E i \in 1..Len(stdout) : stdout[i] = "{"

\* C10: when a worker has panicked, calculate_station_values does not return
\* and no report is written to standard output.
C10_NoPartialOutput == AnyWorkerPanicked => ~Finalized /\ ~ReportWritten

\* a worker panicked after another worker's map, with a station in it, was
\* merged, and the run ended with the panic of the main thread
C10_Witness ==
    /\ AnyWorkerPanicked
    /\ ppc = "panic"
    /\ joined >= 1
    /\ result # EmptyMap

\* C11: on a valid input, under a fair scheduler, the sender is dropped, the
\* workers drain the channel and return, the joins complete and the report
\* is written: the run reaches the end of main, and it stops nowhere else.
C11_Termination ==
    /\ <>(ppc = "exit" /\ ReportWritten /\ queue = << >>
                       /\ \A w \in Workers : wpc[w] = "done")
    /\ [](CanStep \/ ppc = "exit")

\* the end of main was reached after two workers took a chunk each
C11_Witness ==
    /\ ppc = "exit"
    /\ Len(processed) = 2
    /\ processed[1].worker # processed[2].worker

\* the chunk holds a newline-terminated line with no ';' in it
HasLineWithoutSeparator(chunk) ==
    \E i \in 1..Len(InputLines(chunk)) : memchr(SEMI, InputLines(chunk)[i]) = None

\* C12: a worker that has taken a chunk holding a line without ';' has ended
\* in a fatal error: process_chunk does not skip the line, take it into the
\* name of the next record, or end its scan normally.
C12_LineWithoutSeparatorIsFatal ==
    \A k \in 1..Len(processed) :
        HasLineWithoutSeparator(processed[k].chunk)
            => wpc[processed[k].worker] = "panicked"

F64Le(a, b) == ~F64Lt(b, a)

\* min <= max in every entry of a map
MinMaxOrdered(map) == \A n \in DOMAIN map : F64Le(map[n].min, map[n].max)

\* C13: min <= max in every entry of every worker map and of the global
\* map; after finalize min <= mean <= max for every station; and for the
\* station of the exact-median program min <= max, and min <= median <= max
\* once get_median has returned.
C13_CentreBetweenMinAndMax ==
    /\ \A w \in Workers : MinMaxOrdered(wmap[w])
    /\ MinMaxOrdered(result)
    /\ Finalized =>
          \A n \in DOMAIN result :
              F64Le(result[n].min, result[n].mean) /\ F64Le(result[n].mean, result[n].max)
    /\ old_station # NoStation => F64Le(old_station.min, old_station.max)
    /\ mpc = "done" => F64Le(old_station.min, median) /\ F64Le(median, old_station.max)

\* the carried-over bytes at the front of the buffer
Carried == SubSeq(buf, 1, bytes_not_processed)

NoNewlineIn(s) == \A i \in 1..Len(s) : s[i] # NL

\* a read after which the bytes in the buffer hold no newline
StallStep ==
    /\ ppc = "read"
    /\ pos' > pos
    /\ NoNewlineIn(SubSeq(buf', 1, bytes_not_processed + (pos' - pos)))

\* C14: a buffer filled to its length without a newline ends the run in a
\* fatal error; a read that leaves no newline in the buffer is reported,
\* sends nothing and keeps every byte read so far, carried-over bytes
\* first, for the next read, which follows unless the buffer is full.
C14_CapacityError ==
    /\ [](bytes_not_processed = Len(buf) => ppc = "panic")
    /\ [][StallStep =>
            /\ sent' = sent
            /\ queue' = queue
            /\ bytes_not_processed' = bytes_not_processed + (pos' - pos)
            /\ SubSeq(buf', 1, bytes_not_processed')
                   = Carried \o SubSeq(file, pos + 1, pos')
            /\ stdout' = Append(stdout, NoNewLineMessage)
            /\ ppc' = IF bytes_not_processed' = Len(buf) THEN "panic" ELSE "read"]_vars

\* the buffer was filled by three reads with no newline, and the run ended
C14_Witness ==
    /\ ppc = "panic"
    /\ bytes_not_processed = Len(buf)
    /\ NoNewlineIn(Carried)
    /\ Len(stdout) = 3

\* the value of the text is none of the keys of the frequency map
NotABucket(t) == \A x \in 0..GridMax : ~F64Eq(BucketKey[x], parse(t).v)

RECURSIVE FrequencySum(_, _)
FrequencySum(sv, x) ==
    IF x < 0 THEN 0 ELSE sv.frequency[x] + FrequencySum(sv, x - 1)

\* the sum of the counts of the first k entries of the threads
RECURSIVE OldCountSum(_)
OldCountSum(k) == IF k = 0 THEN 0 ELSE old_maps[k].count + OldCountSum(k - 1)

\* C16: the count of the station's entry is the sum of the occurrences in
\* its buckets, after each observation and after each merge, and after the
\* merge it is the sum of the counts of the entries merged.
C16_CountIsHistogramSum ==
    old_station # NoStation =>
        /\ old_station.count = FrequencySum(old_station, GridMax)
        /\ mpc = "merge" => old_station.count = OldCountSum(old_joined)

\* C17 as stated: no map is merged while a worker is still running.
C17_MergeBarrier == joined >= 1 => \A w \in Workers : wpc[w] # "run"

\* the maps of the first k handles, merged in handle order
RECURSIVE MergedMaps(_)
MergedMaps(k) ==
    IF k = 0 THEN EmptyMap ELSE MergeMap(MergedMaps(k - 1), wmap[k])

\* C17 as amended: a worker's map is merged only after that worker has
\* returned, in handle order; the first merge comes after the sender was
\* dropped and the channel drained, so no chunk is processed after it; and
\* during the joins the global map is the merge of the joined workers' maps.
C17_JoinBeforeMerge ==
    /\ \A w \in 1..joined : wpc[w] = "done"
    /\ joined >= 1 => ~SenderAlive /\ queue = << >>
    /\ ppc = "join" => result = MergedMaps(joined)

\* the first worker's map, with a station in it, is merged while the second
\* worker has not yet returned
C17_Witness ==
    /\ joined = 1
    /\ result # EmptyMap
    /\ \E w \in Workers : wpc[w] = "run"

\* what was printed from the "{" of write_result_stdout on
Report ==
    LET first == CHOOSE i \in 1..Len(stdout) :
                     stdout[i] = "{" /\ \A j \in 1..(i - 1) : stdout[j] # "{"
    IN  SubSeq(stdout, first, Len(stdout))

\* the entries of the report are the stations of the table, each once, in
\* strictly ascending order of name, with the table's values to one decimal
\* and ", " after every entry but the last
ReportLists(r, res) ==
    LET n == Len(r) - 1
    IN  /\ n = Cardinality(DOMAIN res)
        /\ \A i \in 1..n :
              /\ r[i + 1].name \in DOMAIN res
              /\ r[i + 1].min = Fmt1(res[r[i + 1].name].min)
              /\ r[i + 1].mean = Fmt1(res[r[i + 1].name].mean)
              /\ r[i + 1].max = Fmt1(res[r[i + 1].name].max)
        /\ \A i \in 1..(n - 1) :
              /\ NameLess(r[i + 1].name, r[i + 2].name)
              /\ r[i + 1].end = ", "

\* the report ends with "}": the model prints it with the last entry
ReportCloses(r) == Len(r) >= 2 /\ r[Len(r)].end = "}"

\* C18: for every finalized table, the empty one included, the report is
\* "{", one entry name=min/centre/max per station, each station once, in
\* strictly ascending byte order of name, separated by ", ", and then "}".
C18_ReportShape ==
    ppc = "exit" =>
        /\ ReportWritten
        /\ Report[1] = "{"
        /\ ReportLists(Report, result)
        /\ ReportCloses(Report)

\* C19: adding the threads' counts of a station never overflows: the merge
\* loop does not panic on the addition, and the station's count in the
\* global map never falls below a count that was added to it (no wrap).
C19_CountNeverWraps ==
    /\ ppc = "panic" => \E w \in Workers : JoinIsErr(w)
    /\ ppc = "join" =>
          \A w \in 1..joined : \A n \in DOMAIN wmap[w] :
              BCmp(result[n].count, wmap[w][n].count) >= 0

====
